---- MODULE Spec2Model ----
(***************************************************************************)
(* The ClickHouse <-> flat file ingestion server (backend server.js).      *)
(*                                                                         *)
(* State: the process-wide client and connectionConfig, the ClickHouse     *)
(* store the client talks to, the local disk (uploads/ and exports/), and  *)
(* the requests in flight.  A request handler is an async function: every  *)
(* action below is the code that runs between two awaits of one handler.   *)
(*                                                                         *)
(* Text (host names, file names, cells, statements) is a sequence of       *)
(* tokens; concatenation, trimming, splitting and joining work on tokens.  *)
(***************************************************************************)
EXTENDS Integers, Sequences, FiniteSets, TLC

VARIABLES
  client,            \* the process-wide client handle, or NoClient
  connectionConfig,  \* the process-wide stored config, or NoConfig
  store,             \* the tables of the ClickHouse server
  disk,              \* the directories and files of the local disk
  clock,             \* the last value read from Date.now()
  req,               \* the request handled in each slot
  served,            \* the number of requests received so far
  established,       \* history: what the last successful connect left
  wizard             \* the state of the wizard page of the frontend

serverVars == <<client, connectionConfig, store, disk, clock, req, served,
                established>>

vars == <<client, connectionConfig, store, disk, clock, req, served,
          established, wizard>>

(***************************************************************************)
(* Bounds of the model.                                                    *)
(***************************************************************************)
NumSlots == 2
MaxReqs == 3
MaxClock == 1
MaxTimers == 1

Slots == 1..NumSlots

(***************************************************************************)
(* Generic helpers on sequences.                                           *)
(***************************************************************************)
RECURSIVE Flatten(_)
Flatten(ss) == IF ss = <<>> THEN <<>> ELSE Head(ss) \o Flatten(Tail(ss))

RECURSIVE Join(_, _)
Join(ss, sep) ==
  IF ss = <<>> THEN <<>>
  ELSE IF Len(ss) = 1 THEN Head(ss)
  ELSE Head(ss) \o sep \o Join(Tail(ss), sep)

Range(f) == {f[i] : i \in DOMAIN f}

Front(q) == SubSeq(q, 1, Len(q) - 1)

\* String.prototype.split(sep) for a one-token separator.
RECURSIVE Split(_, _)
Split(str, sep) ==
  IF str = <<>> THEN << <<>> >>
  ELSE LET rest == Split(Tail(str), sep) IN
       IF Head(str) = sep THEN << <<>> >> \o rest
       ELSE << <<Head(str)>> \o Head(rest) >> \o Tail(rest)

(***************************************************************************)
(* JavaScript values that may be undefined: Some(v) or None.               *)
(***************************************************************************)
None == [some |-> FALSE, v |-> <<>>]
Some(x) == [some |-> TRUE, v |-> x]

\* JS truthiness of an optional string: undefined and "" are falsy.
Truthy(o) == o.some /\ o.v # <<>>

(***************************************************************************)
(* The process-wide state of server.js.                                    *)
(***************************************************************************)
NoClient == [kind |-> "absent"]
NoConfig == [kind |-> "undefined"]

\* createClient(config): a handle bound to config; owner is the request that
\* created it (a handle's identity, not something the code reads).
createClient(cfg, s) == [kind |-> "client", cfg |-> cfg, owner |-> s]

\* startsWith(str, prefix) for a one-token prefix.
startsWith(str, prefix) == Len(str) >= 1 /\ str[1] = prefix

\* String.prototype.trim: drop the leading and trailing blanks.
RECURSIVE TrimLeft(_)
TrimLeft(str) ==
  IF str # <<>> /\ Head(str) = " " THEN TrimLeft(Tail(str)) ELSE str

RECURSIVE TrimRight(_)
TrimRight(str) ==
  IF str # <<>> /\ str[Len(str)] = " " THEN TrimRight(Front(str)) ELSE str

Trim(str) == TrimRight(TrimLeft(str))

\* String.prototype.replace(pat, ""): remove the first occurrence of pat.
RECURSIVE ReplaceFirst(_, _)
ReplaceFirst(str, pat) ==
  IF str = <<>> THEN <<>>
  ELSE IF Head(str) = pat THEN Tail(str)
  ELSE <<Head(str)>> \o ReplaceFirst(Tail(str), pat)

cleanHost(host) ==
  LET t == Trim(host) IN
  IF startsWith(t, "https://") \/ startsWith(t, "http://")
  THEN ReplaceFirst(ReplaceFirst(t, "https://"), "http://")
  ELSE t

\* The config object built by /connect; port and credentials are copied
\* from the body unchanged.
MakeConfig(host, port) ==
  [kind |-> "config", url |-> <<"https://">> \o cleanHost(host) \o <<":", port>>]

(***************************************************************************)
(* node:path (posix) on texts whose separator token is "/".                *)
(***************************************************************************)
NonEmptySegs(p) == SelectSeq(Split(p, "/"), LAMBDA seg : seg # <<>>)

\* path.basename: the last segment, trailing separators ignored.
basename(p) ==
  LET segs == NonEmptySegs(p) IN
  IF segs = <<>> THEN <<>> ELSE segs[Len(segs)]

\* path.normalize of an absolute path, as a sequence of segments.
RECURSIVE Resolve(_, _)
Resolve(segs, acc) ==
  IF segs = <<>> THEN acc
  ELSE IF Head(segs) = <<".">> THEN Resolve(Tail(segs), acc)
  ELSE IF Head(segs) = <<"..">>
       THEN Resolve(Tail(segs), IF acc = <<>> THEN acc ELSE Front(acc))
  ELSE Resolve(Tail(segs), Append(acc, Head(segs)))

Absolute(segs) ==
  IF segs = <<>> THEN <<"/">>
  ELSE Flatten([i \in 1..Len(segs) |-> <<"/">> \o segs[i]])

\* path.join(dir, name) for an absolute dir.
pathJoin(dir, name) ==
  Absolute(Resolve(NonEmptySegs(dir \o <<"/">> \o name), <<>>))

\* path.dirname of a normalized absolute path.
dirname(p) ==
  LET segs == NonEmptySegs(p) IN
  IF segs = <<>> THEN <<"/">> ELSE Absolute(Front(segs))

\* __dirname of server.js and the two directories it works in.
AppDir == <<"/", "srv">>
UploadDir == pathJoin(AppDir, <<"uploads">>)
ExportsDir == pathJoin(AppDir, <<"exports">>)

(***************************************************************************)
(* Rows: a JS object with string keys is the sequence of its <<key, value>> *)
(* pairs in insertion order (the order Object.keys reports).               *)
(***************************************************************************)
ObjectKeys(row) == [i \in 1..Len(row) |-> row[i][1]]
ObjectValues(row) == [i \in 1..Len(row) |-> row[i][2]]
HasKey(row, k) == \E i \in 1..Len(row) : row[i][1] = k
Get(row, k) == row[CHOOSE i \in 1..Len(row) : row[i][1] = k][2]

(***************************************************************************)
(* The ClickHouse store: table name -> [cols, rows].                       *)
(***************************************************************************)
InitialStore ==
  (<<"t0">> :> [cols |-> << <<"a">> >>, rows |-> <<>>]) @@
  (<<"t1">> :> [cols |-> << <<"a">>, <<"b">> >>,
                rows |-> << << << <<"a">>, <<"1">> >>, << <<"b">>, <<"2">> >> >> >>]) @@
  (<<"t2">> :> [cols |-> << <<"a">>, <<"b">>, <<"c">> >>,
                rows |-> << << << <<"a">>, <<"3">> >>, << <<"b">>, <<"4">> >>,
                               << <<"c">>, <<"5">> >> >> >>])

\* Whether the store can answer SELECT cols FROM t, and with which rows
\* (JSONEachRow: one object per row, keys in the order of the projection).
SelectOk(t, cols) ==
  /\ t \in DOMAIN store
  /\ \A i \in 1..Len(cols) : cols[i] \in Range(store[t].cols)

SelectRows(t, cols) ==
  LET cs == IF cols = <<>> THEN store[t].cols ELSE cols
      rs == store[t].rows
  IN [i \in 1..Len(rs) |->
        [j \in 1..Len(cs) |->
           <<cs[j], IF HasKey(rs[i], cs[j]) THEN Get(rs[i], cs[j]) ELSE <<>> >>]]

(***************************************************************************)
(* Requests.                                                               *)
(***************************************************************************)
NoResp == [status |-> 0, error |-> "", message |-> "", records |-> 0,
           filePath |-> None]

\* op and body: the request; pc: the await the handler is suspended at;
\* loc: the handler's local variables; resp: the response sent.  io and ens
\* are history: the I/O operations the handler has started and the calls of
\* ensureConnection it has made.
IdleReq == [op |-> "none", pc |-> "idle", body |-> [x |-> 0],
            io |-> <<>>, ens |-> <<>>, resp |-> NoResp, loc |-> [x |-> 0]]

NewReq(op, body, loc) ==
  [op |-> op, pc |-> "start", body |-> body, io |-> <<>>, ens |-> <<>>,
   resp |-> NoResp, loc |-> loc]

\* An I/O operation: its kind, its argument (a url, a statement, a path)
\* and how it settled.
Ev(kind, arg, res) == [ev |-> kind, a |-> arg, res |-> res]

Respond(r, status, error, message) ==
  [r EXCEPT !.pc = "done",
            !.resp = [status |-> status, error |-> error, message |-> message,
                      records |-> 0, filePath |-> None]]

\* History of a call of ensureConnection: what it saw and what it returned.
Called(r, cl, result) ==
  [r EXCEPT !.ens = Append(@, [absent |-> cl = NoClient,
                               config |-> connectionConfig,
                               result |-> result])]

Settled(r, ok) ==
  [r EXCEPT !.ens[Len(r.ens)].result = IF ok THEN "true" ELSE "false"]

Returns(cl) == IF cl # NoClient THEN "true" ELSE "false"

NoneEstablished == [some |-> FALSE]

\* The handler starts an operation and awaits it at pc.
Issue(r, kind, arg, pc) ==
  [r EXCEPT !.pc = pc, !.io = Append(@, Ev(kind, arg, "pending"))]

\* The handler performs a synchronous operation.
Sync(r, kind, arg, ok) ==
  [r EXCEPT !.io = Append(@, Ev(kind, arg, IF ok THEN "ok" ELSE "error"))]

\* The awaited operation (the last one started) settles.
Settle(r, ok) ==
  [r EXCEPT !.io[Len(r.io)].res = IF ok THEN "ok" ELSE "error"]

\* The handler code of a request has run to its end.
Finished(r) == r.pc \in {"idle", "done", "escaped"}

\* No request is between two awaits.
Quiescent == \A s \in Slots : Finished(req[s])

\* An error event without a listener ended the process.
Crashed == \E s \in Slots : req[s].pc = "uncaught"

CanStart(s) ==
  /\ ~Crashed
  /\ Finished(req[s])
  /\ served < MaxReqs

InFlight(s, pc) == ~Crashed /\ req[s].pc = pc

\* A new request arrives in slot s; the records of answered requests are
\* dropped.
Arrive(s, r) ==
  [t \in Slots |-> IF t = s THEN r
                   ELSE IF Finished(req[t]) THEN IdleReq ELSE req[t]]

(***************************************************************************)
(* POST /connect                                                           *)
(***************************************************************************)
Port == "8443"

HostInputs ==
  { None,
    Some(<<"db1">>),
    Some(<<"https://", "db1">>),
    Some(<<" ", "http://", "db2", " ">>) }

\* Lines 45-73: up to the await of the liveness query.
Connect(s, host) ==
  /\ CanStart(s)
  /\ served' = served + 1
  /\ IF ~host.some
     THEN \* host.trim() throws before the try block
          /\ req' = Arrive(s, [NewReq("connect", [host |-> host],
                                      [before |-> connectionConfig])
                                   EXCEPT !.pc = "escaped"])
          /\ UNCHANGED <<client, connectionConfig, established>>
     ELSE LET cfg == MakeConfig(host.v, Port) IN
          /\ connectionConfig' = cfg
          /\ client' = createClient(cfg, s)
          /\ req' = Arrive(s, Issue(NewReq("connect", [host |-> host],
                                            [before |-> connectionConfig]),
                                     "ping", cfg.url, "connect_wait"))
          /\ established' = NoneEstablished
  /\ UNCHANGED <<store, disk, clock>>

\* Lines 75-86: the liveness query settles.
ConnectReturn(s, ok) ==
  /\ InFlight(s, "connect_wait")
  /\ IF ok
     THEN /\ req' = [req EXCEPT ![s] =
                       Respond(Settle(@, ok), 200, "", "Connected to ClickHouse")]
          /\ established' = [some |-> TRUE, client |-> client,
                             config |-> connectionConfig]
          /\ UNCHANGED client
     ELSE /\ client' = NoClient
          /\ req' = [req EXCEPT ![s] =
                       Respond(Settle(@, ok), 500, "driver error",
                               "Failed to connect")]
          /\ established' = NoneEstablished
  /\ UNCHANGED <<connectionConfig, store, disk, clock, served>>

(***************************************************************************)
(* ensureConnection and the synchronous code that follows its return.      *)
(* A synchronous segment is a function of the request record r and of the  *)
(* client cl and disk dk it sees; its result is what it leaves behind.     *)
(***************************************************************************)
Out(r, cl, dk) == [r |-> r, client |-> cl, disk |-> dk]

\* A reconnect attempted whenever a config is stored, the client's presence
\* not looked at.
NeedsReconnectIgnoringClient(cl) == connectionConfig # NoConfig

\* Lines 91-100: a reconnect is attempted iff the client is falsy and a
\* config is stored.
NeedsReconnect(cl) == cl = NoClient /\ connectionConfig # NoConfig

\* Lines 92-100: create the client and await its liveness query; at is the
\* call site to resume.
Reconnect(r, at, s, dk) ==
  Out(Issue(Called([r EXCEPT !.loc.at = at], NoClient, "pending"),
            "ping", connectionConfig.url, "ensure_wait"),
      createClient(connectionConfig, s), dk)

ColumnsStr(cols) == IF Len(cols) > 0 THEN Join(cols, <<", ">>) ELSE <<"*">>

NotConnected == "Not connected to ClickHouse"

(***************************************************************************)
(* GET /tables, GET /columns/:table, POST /preview                         *)
(***************************************************************************)
DataStatement(r) ==
  CASE r.op = "tables" -> <<"SHOW TABLES">>
    [] r.op = "columns" -> <<"DESCRIBE TABLE ">> \o r.body.table
    [] r.op = "preview" ->
         <<"SELECT ">> \o ColumnsStr(r.body.columns) \o <<" FROM ">>
           \o r.body.table \o <<" LIMIT 100">>

\* The error strings of lines 129, 152 and 175; the string of /columns is
\* followed by the table name, which is left out here.
DataError(r) ==
  CASE r.op = "tables" -> "Failed to fetch tables"
    [] r.op = "columns" -> "Failed to fetch columns"
    [] r.op = "preview" -> "Failed to fetch preview"

\* The handler looking at the client again after ensureConnection returned.
DataAfterEnsureRechecking(r, ok, cl, dk) ==
  IF ~ok \/ cl = NoClient THEN Out(Respond(r, 400, NotConnected, ""), cl, dk)
  ELSE Out(Issue(r, "query", DataStatement(r), "query_wait"), cl, dk)

\* The handler after `await ensureConnection()` returned ok.
DataAfterEnsure(r, ok, cl, dk) ==
  IF ~ok THEN Out(Respond(r, 400, NotConnected, ""), cl, dk)
  ELSE IF cl = NoClient
  THEN \* client.query on a falsy client throws inside the try block
       Out(Respond(r, 500, DataError(r), ""), cl, dk)
  ELSE Out(Issue(r, "query", DataStatement(r), "query_wait"), cl, dk)

(***************************************************************************)
(* clickhouseToFlatFile                                                    *)
(***************************************************************************)
IngestFailed == "Failed to perform data ingestion"

\* The catch block of /ingest, lines 381-387.
IngestCatch(r, message) == Respond(r, 500, IngestFailed, message)

\* The success response of /ingest, lines 375-380.
IngestSuccess(r, recordCount, message, filePath) ==
  [r EXCEPT !.pc = "done",
            !.resp = [status |-> 200, error |-> "", message |-> message,
                      records |-> recordCount,
                      filePath |-> IF Truthy(filePath) THEN filePath ELSE None]]

\* The default fieldDelimiter of createObjectCsvWriter; lines 248-251 pass
\* only path and header.
FieldDelimiter == ","

\* Every record written with its own values instead of the header's fields.
CsvLinesOwnFields(header, records, delim) ==
  << Join(header, <<delim>>) >> \o
  [i \in 1..Len(records) |-> Join(ObjectValues(records[i]), <<delim>>)]

\* ObjectCsvStringifier: the titles, then for each record the values of the
\* header ids, an undefined value written as the empty string.
CsvLines(header, records, delim) ==
  << Join(header, <<delim>>) >> \o
  [i \in 1..Len(records) |->
     Join([j \in 1..Len(header) |->
             IF HasKey(records[i], header[j])
             THEN Get(records[i], header[j]) ELSE <<>>],
          <<delim>>)]

\* Line 211: columns[table] || []
ExportColumns(r, table) ==
  IF table \in DOMAIN r.body.columns THEN r.body.columns[table] ELSE <<>>

\* Lines 212-216.
ExportStatement(r, table) ==
  <<"SELECT ">> \o ColumnsStr(ExportColumns(r, table)) \o <<" FROM ">> \o table

\* Lines 235-238: create the exports directory if it does not exist.
MkdirExports(o) ==
  IF ExportsDir \in o.disk.dirs THEN o
  ELSE Out(Sync(o.r, "mkdir", ExportsDir, TRUE), o.client,
           [o.disk EXCEPT !.dirs = @ \cup {ExportsDir}])

\* Lines 240-253: the file name, the header and the start of the write.
ExportWrite(r, cl, dk) ==
  LET safeFileName ==
        basename(IF Truthy(r.body.targetFile) THEN r.body.targetFile.v
                 ELSE <<"export.csv">>)
      filePath == pathJoin(ExportsDir, safeFileName)
      header == ObjectKeys(r.loc.results[1])
      r1 == [r EXCEPT !.loc.safeFileName = safeFileName,
                      !.loc.filePath = filePath,
                      !.loc.header = header]
  IN Out(Issue(r1, "write", filePath, "export_write_wait"), cl, dk)

\* Lines 210-226: the next query of the for loop.
ExportQuery(r, cl, dk) ==
  IF cl = NoClient
  THEN Out(IngestCatch(r, "TypeError"), cl, dk)
  ELSE Out(Issue(r, "query", ExportStatement(r, r.body.tables[r.loc.i]),
                 "export_query_wait"), cl, dk)

\* The exports directory created before the queries are made.
ExportStepMkdirFirst(r, cl, dk) ==
  LET o == MkdirExports(Out(r, cl, dk)) IN
  IF r.loc.i <= Len(r.body.tables) THEN ExportQuery(o.r, o.client, o.disk)
  ELSE IF Len(r.loc.results) = 0
  THEN Out(IngestSuccess(o.r, 0, "No records found to export", None),
           o.client, o.disk)
  ELSE ExportWrite(o.r, o.client, o.disk)

\* Lines 210-253 from the top of the for loop to the next await.
ExportStep(r, cl, dk) ==
  IF r.loc.i <= Len(r.body.tables) THEN ExportQuery(r, cl, dk)
  ELSE IF Len(r.loc.results) = 0
  THEN Out(IngestSuccess(r, 0, "No records found to export", None), cl, dk)
  ELSE LET o == MkdirExports(Out(r, cl, dk)) IN
       ExportWrite(o.r, o.client, o.disk)

\* Lines 203-208.
ExportAfterEnsure(r, ok, cl, dk) ==
  IF ~ok
  THEN Out(IngestCatch(r, "Not connected to ClickHouse. Please connect first."),
           cl, dk)
  ELSE ExportStep([r EXCEPT !.loc.i = 1, !.loc.results = <<>>,
                            !.loc.recordCount = 0], cl, dk)

(***************************************************************************)
(* flatFileToClickhouse                                                    *)
(***************************************************************************)
\* csv-parser with {separator}: the first line names the columns, every
\* other line is one record keyed by them (a cell beyond the headers is
\* keyed _<index>).
csvParse(lines, separator) ==
  IF lines = <<>> THEN <<>>
  ELSE LET headers == Split(lines[1], separator) IN
       [i \in 1..(Len(lines) - 1) |->
          LET cells == Split(lines[i + 1], separator) IN
          [j \in 1..Len(cells) |->
             << IF j <= Len(headers) THEN headers[j]
                ELSE <<"_", ToString(j - 1)>>,
                cells[j] >>]]

\* val.replace(/'/g, "''")
RECURSIVE EscapeQuotes(_)
EscapeQuotes(val) ==
  IF val = <<>> THEN <<>>
  ELSE (IF Head(val) = "'" THEN <<"''">> ELSE <<Head(val)>>)
       \o EscapeQuotes(Tail(val))

\* Lines 284-293.
CreateStatement(targetTable, firstRow) ==
  LET columns == ObjectKeys(firstRow)
      columnDefs == Join([j \in 1..Len(columns) |-> columns[j] \o <<" String">>],
                         <<", ">>)
  IN <<"CREATE TABLE IF NOT EXISTS ">> \o targetTable \o <<" (">>
       \o columnDefs \o <<") ENGINE = MergeTree() ORDER BY tuple()">>

\* Lines 298-305.
InsertStatement(targetTable, row) ==
  LET columnNames == Join(ObjectKeys(row), <<", ">>)
      vals == ObjectValues(row)
      values == Join([j \in 1..Len(vals) |->
                        <<"'">> \o EscapeQuotes(vals[j]) \o <<"'">>],
                     <<", ">>)
  IN <<"INSERT INTO ">> \o targetTable \o <<" (">> \o columnNames
       \o <<") VALUES (">> \o values \o <<")">>

\* The function default `delimiter = ","`.
Delimiter(r) == IF r.body.delimiter.some THEN r.body.delimiter.v ELSE ","

\* The for loop stopping one record early.
ImportStepStoppingEarly(r, cl, dk) ==
  IF r.loc.i < Len(r.loc.rows)
  THEN Out(Issue(r, "exec",
                 InsertStatement(r.body.targetTable.v, r.loc.rows[r.loc.i]),
                 "import_insert_wait"), cl, dk)
  ELSE Out(IngestSuccess(r, Len(r.loc.rows), "Successfully imported", None),
           cl, dk)

\* Lines 297-311 from the top of the for loop to the next await.
ImportStep(r, cl, dk) ==
  IF r.loc.i <= Len(r.loc.rows)
  THEN IF cl = NoClient
       THEN Out(IngestCatch(r, "TypeError"), cl, dk)
       ELSE Out(Issue(r, "exec",
                      InsertStatement(r.body.targetTable.v, r.loc.rows[r.loc.i]),
                      "import_insert_wait"), cl, dk)
  ELSE Out(IngestSuccess(r, Len(r.loc.rows), "Successfully imported", None),
           cl, dk)

\* Lines 276-294: the parser has ended with rows.
ImportEnd(r, rows, cl, dk) ==
  IF Len(rows) = 0
  THEN Out(IngestSuccess(r, 0, "No records found in file", None), cl, dk)
  ELSE IF cl = NoClient
  THEN Out(IngestCatch(r, "TypeError"), cl, dk)
  ELSE Out(Issue([r EXCEPT !.loc.rows = rows, !.loc.i = 1], "exec",
                 CreateStatement(r.body.targetTable.v, rows[1]),
                 "import_create_wait"), cl, dk)

\* Lines 266-275.
ImportAfterEnsure(r, ok, cl, dk) ==
  IF ~ok
  THEN Out(IngestCatch(r, "Not connected to ClickHouse. Please connect first."),
           cl, dk)
  ELSE Out(Issue(r, "read", r.body.filePath.v, "import_read_wait"), cl, dk)

(***************************************************************************)
(* POST /ingest                                                            *)
(***************************************************************************)
IngestLoc ==
  [at |-> "handler", i |-> 0, results |-> <<>>, recordCount |-> 0,
   rows |-> <<>>, safeFileName |-> <<>>, filePath |-> <<>>, header |-> <<>>]

\* Lines 349-373: the dispatch on (source, target).
IngestDispatch(r, cl, dk, s) ==
  IF r.body.source = "clickhouse" /\ r.body.target = "flatfile"
  THEN IF NeedsReconnect(cl) THEN Reconnect(r, "export", s, dk)
       ELSE ExportAfterEnsure(Called(r, cl, Returns(cl)), cl # NoClient, cl, dk)
  ELSE IF r.body.source = "flatfile" /\ r.body.target = "clickhouse"
  THEN IF ~Truthy(r.body.filePath)
       THEN Out(Respond(r, 400, "No file path provided", ""), cl, dk)
       ELSE IF ~Truthy(r.body.targetTable)
       THEN Out(Respond(r, 400, "No target table specified", ""), cl, dk)
       ELSE IF NeedsReconnect(cl) THEN Reconnect(r, "import", s, dk)
       ELSE ImportAfterEnsure(Called(r, cl, Returns(cl)), cl # NoClient, cl, dk)
  ELSE Out(Respond(r, 400, "Invalid source or target combination", ""), cl, dk)

\* The handler going on to the dispatch whatever ensureConnection returned.
IngestAfterEnsureUnchecked(r, ok, cl, dk, s) == IngestDispatch(r, cl, dk, s)

\* Lines 338-347.
IngestAfterEnsure(r, ok, cl, dk, s) ==
  IF ~ok
  THEN Out(Respond(r, 400, NotConnected,
                   "Please connect to ClickHouse before performing data operations"),
           cl, dk)
  ELSE IngestDispatch(r, cl, dk, s)

\* The code after the await of the ensureConnection call made at r.loc.at.
Resume(r, ok, cl, dk, s) ==
  CASE r.loc.at = "export" -> ExportAfterEnsure(r, ok, cl, dk)
    [] r.loc.at = "import" -> ImportAfterEnsure(r, ok, cl, dk)
    [] r.loc.at = "handler" /\ r.op = "ingest" -> IngestAfterEnsure(r, ok, cl, dk, s)
    [] r.loc.at = "handler" /\ r.op # "ingest" -> DataAfterEnsure(r, ok, cl, dk)

\* ensureConnection() called by request r: lines 90-110 up to its await or
\* its immediate return, followed by the caller's code.
ensureConnection(r, s) ==
  IF NeedsReconnect(client) THEN Reconnect(r, "handler", s, disk)
  ELSE Resume(Called(r, client, Returns(client)), client # NoClient, client,
              disk, s)

Apply(s, o) ==
  /\ req' = [req EXCEPT ![s] = o.r]
  /\ client' = o.client
  /\ disk' = o.disk

ApplyStart(s, o) ==
  /\ req' = Arrive(s, o.r)
  /\ client' = o.client
  /\ disk' = o.disk
  /\ served' = served + 1

(***************************************************************************)
(* The handlers up to their first await.                                   *)
(***************************************************************************)
DataLoc == [at |-> "handler"]

TableInputs == { <<"t1">> }
PreviewColumnsInputs == { <<>>, << <<"a">> >> }

\* Lines 113-122.
Tables(s) ==
  /\ CanStart(s)
  /\ ApplyStart(s, ensureConnection(NewReq("tables", [x |-> 0], DataLoc), s))
  /\ UNCHANGED <<connectionConfig, store, clock, established>>

\* Lines 134-145.
Columns(s, table) ==
  /\ CanStart(s)
  /\ ApplyStart(s, ensureConnection(
                     NewReq("columns", [table |-> table], DataLoc), s))
  /\ UNCHANGED <<connectionConfig, store, clock, established>>

\* Lines 157-169.
Preview(s, table, columns) ==
  /\ CanStart(s)
  /\ ApplyStart(s, ensureConnection(
                     NewReq("preview", [table |-> table, columns |-> columns],
                            DataLoc), s))
  /\ UNCHANGED <<connectionConfig, store, clock, established>>

Kinds == {"clickhouse", "flatfile", "other"}

NoColumns == [t \in {} |-> <<>>]

\* The (tables, columns) pairs of the export requests.
ExportInputs ==
  { [tables |-> << <<"t0">> >>, columns |-> NoColumns],
    [tables |-> << <<"t1">>, <<"t2">> >>, columns |-> NoColumns],
    [tables |-> << <<"t2">>, <<"t1">> >>,
     columns |-> (<<"t2">> :> << <<"c">>, <<"a">> >>)] }

TargetFileInputs ==
  { None,
    Some(<<"..", "/", "..", "/", "etc", "/", "passwd">>),
    Some(<<"..">>) }

DelimiterInputs == { None, Some(";") }

MissingFile == <<"/", "tmp", "/", "nofile.csv">>

FilePathInputs ==
  {None, Some(MissingFile)} \cup {Some(p) : p \in DOMAIN disk.files}

TargetTableInputs == { None, Some(<<"imp">>) }

Body(source, target, tables, columns, filePath, targetFile, targetTable, delimiter) ==
  [source |-> source, target |-> target, tables |-> tables,
   columns |-> columns, filePath |-> filePath, targetFile |-> targetFile,
   targetTable |-> targetTable, delimiter |-> delimiter]

IngestBodies ==
  { Body(src, tgt, <<>>, NoColumns, None, None, None, None) :
      src \in Kinds, tgt \in Kinds }
  \cup
  { Body("clickhouse", "flatfile", e.tables, e.columns, None, tf, None, d) :
      e \in ExportInputs, tf \in TargetFileInputs, d \in DelimiterInputs }
  \cup
  { Body("flatfile", "clickhouse", <<>>, NoColumns, fp, None, tt, d) :
      fp \in FilePathInputs, tt \in TargetTableInputs, d \in DelimiterInputs }

\* Lines 324-347.
Ingest(s, body) ==
  /\ CanStart(s)
  /\ LET r == NewReq("ingest", body, IngestLoc) IN
     ApplyStart(s,
       IF body.source = "clickhouse" \/ body.target = "clickhouse"
       THEN ensureConnection(r, s)
       ELSE IngestDispatch(r, client, disk, s))
  /\ UNCHANGED <<connectionConfig, store, clock, established>>

(***************************************************************************)
(* The continuations after each await.                                     *)
(***************************************************************************)
\* The catch block of ensureConnection without its `client = null`.
EnsureReturnKeepingClient(s, ok) ==
  /\ InFlight(s, "ensure_wait")
  /\ Apply(s, Resume(Settle(Settled(req[s], ok), ok), ok, client, disk, s))
  /\ established' = IF ok THEN established ELSE NoneEstablished
  /\ UNCHANGED <<connectionConfig, store, clock, served>>

\* Lines 101-107: the liveness query of a reconnect settles.
EnsureReturn(s, ok) ==
  /\ InFlight(s, "ensure_wait")
  /\ Apply(s, Resume(Settle(Settled(req[s], ok), ok), ok,
                      IF ok THEN client ELSE NoClient, disk, s))
  /\ established' = IF ok THEN established ELSE NoneEstablished
  /\ UNCHANGED <<connectionConfig, store, clock, served>>

\* Lines 124-130, 147-153, 171-176.
QueryReturn(s, ok) ==
  /\ InFlight(s, "query_wait")
  /\ req' = [req EXCEPT ![s] =
               IF ok THEN Respond(Settle(@, ok), 200, "", "")
               ELSE Respond(Settle(@, ok), 500, DataError(@), "")]
  /\ UNCHANGED <<client, connectionConfig, store, disk, clock, served, established>>

\* The rows of a table put in front of the rows accumulated so far.
ExportQueryReturnPrepending(s, ok) ==
  /\ InFlight(s, "export_query_wait")
  /\ LET r == Settle(req[s], ok)
         table == r.body.tables[r.loc.i]
         cols == ExportColumns(r, table)
     IN /\ ok => SelectOk(table, cols)
        /\ IF ok
           THEN LET rows == SelectRows(table, cols) IN
                Apply(s, ExportStep(
                  [r EXCEPT !.loc.results = rows \o @,
                            !.loc.recordCount = @ + Len(rows),
                            !.loc.i = @ + 1], client, disk))
           ELSE Apply(s, Out(IngestCatch(r, "query error"), client, disk))
  /\ UNCHANGED <<connectionConfig, store, clock, served, established>>

\* Lines 220-226, then the loop again.
ExportQueryReturn(s, ok) ==
  /\ InFlight(s, "export_query_wait")
  /\ LET r == Settle(req[s], ok)
         table == r.body.tables[r.loc.i]
         cols == ExportColumns(r, table)
     IN /\ ok => SelectOk(table, cols)
        /\ IF ok
           THEN LET rows == SelectRows(table, cols) IN
                Apply(s, ExportStep(
                  [r EXCEPT !.loc.results = @ \o rows,
                            !.loc.recordCount = @ + Len(rows),
                            !.loc.i = @ + 1], client, disk))
           ELSE Apply(s, Out(IngestCatch(r, "query error"), client, disk))
  /\ UNCHANGED <<connectionConfig, store, clock, served, established>>

\* Lines 253-259: writeRecords settles.
ExportWriteReturn(s) ==
  /\ InFlight(s, "export_write_wait")
  /\ LET r == Settle(req[s], req[s].loc.filePath \notin disk.dirs) IN
     IF r.loc.filePath \in disk.dirs
     THEN \* EISDIR
          /\ req' = [req EXCEPT ![s] = IngestCatch(r, "EISDIR")]
          /\ UNCHANGED disk
     ELSE /\ disk' = [disk EXCEPT !.files =
                        (r.loc.filePath :>
                           CsvLines(r.loc.header, r.loc.results, FieldDelimiter))
                        @@ @]
          /\ req' = [req EXCEPT ![s] =
                       IngestSuccess(r, r.loc.recordCount,
                                     "Successfully exported",
                                     Some(r.loc.safeFileName))]
  /\ UNCHANGED <<client, connectionConfig, store, clock, served, established>>

\* Lines 273-294: the read stream ends or fails.
ImportReadReturn(s) ==
  /\ InFlight(s, "import_read_wait")
  /\ LET r == Settle(req[s], req[s].body.filePath.v \in DOMAIN disk.files) IN
     IF r.body.filePath.v \notin DOMAIN disk.files
     THEN \* the read stream emits 'error'; the listener of line 317 is on
          \* the parser, not on the read stream
          /\ req' = [req EXCEPT ![s] = [r EXCEPT !.pc = "uncaught"]]
          /\ UNCHANGED <<client, disk>>
     ELSE Apply(s, ImportEnd(r, csvParse(disk.files[r.body.filePath.v],
                                         Delimiter(r)), client, disk))
  /\ UNCHANGED <<connectionConfig, store, clock, served, established>>

\* Lines 287-297: the create-table statement settles.
ImportCreateReturn(s, ok) ==
  /\ InFlight(s, "import_create_wait")
  /\ LET r == Settle(req[s], ok)
         t == r.body.targetTable.v
     IN IF ok
        THEN /\ store' = IF t \in DOMAIN store THEN store
                         ELSE (t :> [cols |-> ObjectKeys(r.loc.rows[1]),
                                     rows |-> <<>>]) @@ store
             /\ Apply(s, ImportStep(r, client, disk))
        ELSE /\ Apply(s, Out(IngestCatch(r, "statement error"), client, disk))
             /\ UNCHANGED store
  /\ UNCHANGED <<connectionConfig, clock, served, established>>

\* A failed insert skipped, the loop going on with the next record.
ImportInsertReturnSkipping(s, ok) ==
  /\ InFlight(s, "import_insert_wait")
  /\ LET r == Settle(req[s], ok)
         t == r.body.targetTable.v
     IN /\ ok => t \in DOMAIN store
        /\ store' = IF ok THEN [store EXCEPT ![t].rows =
                                  Append(@, r.loc.rows[r.loc.i])]
                    ELSE store
        /\ Apply(s, ImportStep([r EXCEPT !.loc.i = @ + 1], client, disk))
  /\ UNCHANGED <<connectionConfig, clock, served, established>>

\* Lines 303-306, then the loop again.
ImportInsertReturn(s, ok) ==
  /\ InFlight(s, "import_insert_wait")
  /\ LET r == Settle(req[s], ok)
         t == r.body.targetTable.v
     IN /\ ok => t \in DOMAIN store
        /\ IF ok
           THEN /\ store' = [store EXCEPT ![t].rows =
                               Append(@, r.loc.rows[r.loc.i])]
                /\ Apply(s, ImportStep([r EXCEPT !.loc.i = @ + 1], client, disk))
           ELSE /\ Apply(s, Out(IngestCatch(r, "statement error"), client, disk))
                /\ UNCHANGED store
  /\ UNCHANGED <<connectionConfig, clock, served, established>>

(***************************************************************************)
(* POST /upload and GET /download/:filename                                *)
(***************************************************************************)
GoodCsv ==
  << <<"name", ",", "age">>,
     <<"Alice", ",", "30">>,
     <<"Bob", ",", "25">>,
     <<"O", "'", "Hara", ",", "41">> >>

HeaderOnlyCsv == << <<"name", ",", "age">> >>

UploadInputs ==
  { None,
    Some([originalname |-> <<"d.csv">>, content |-> GoodCsv]),
    Some([originalname |-> <<"d.csv">>, content |-> HeaderOnlyCsv]) }

\* Lines 22-33 and 180-193; dt is the time passed since the clock was last
\* read, now the value of Date.now().
Upload(s, file, dt) ==
  /\ CanStart(s)
  /\ clock + dt <= MaxClock
  /\ clock' = clock + dt
  /\ served' = served + 1
  /\ IF ~file.some
     THEN /\ req' = Arrive(s, Respond(NewReq("upload", [file |-> file], [x |-> 0]),
                                      400, "No file uploaded", ""))
          /\ UNCHANGED disk
     ELSE LET now == <<ToString(clock')>>
              filename == now \o <<"-">> \o file.v.originalname
              path == pathJoin(UploadDir, filename)
              r == Sync(NewReq("upload", [file |-> file], [x |-> 0]),
                        "write", path, TRUE)
          IN /\ disk' = [dirs |-> disk.dirs \cup {UploadDir},
                         files |-> (path :> file.v.content) @@ disk.files]
             /\ req' = Arrive(s, [r EXCEPT !.resp =
                                    [status |-> 200, error |-> "", message |-> "",
                                     records |-> 0, filePath |-> Some(path)],
                                  !.pc = "done"])
  /\ UNCHANGED <<client, connectionConfig, store, established>>

DownloadInputs ==
  { <<"export.csv">>,
    <<"..", "/", "..", "/", "etc", "/", "passwd">>,
    <<"..">>,
    <<".">> }

\* Lines 391-407.
Download(s, filename) ==
  /\ CanStart(s)
  /\ served' = served + 1
  /\ LET safeFilename == basename(filename)
         filePath == pathJoin(ExportsDir, safeFilename)
         r == Sync(NewReq("download", [filename |-> filename], [x |-> 0]),
                   "exists", filePath, TRUE)
     IN req' = Arrive(s,
                 IF filePath \notin DOMAIN disk.files /\ filePath \notin disk.dirs
                 THEN Respond(r, 404, "File not found", "")
                 ELSE \* res.download(filePath); a directory cannot be sent
                      Respond(Sync(r, "read", filePath, filePath \notin disk.dirs),
                              IF filePath \in disk.dirs THEN 404 ELSE 200, "", ""))
  /\ UNCHANGED <<client, connectionConfig, store, disk, clock, established>>

(***************************************************************************)
(* The wizard page of the frontend (page.tsx).                             *)
(***************************************************************************)
\* A sample of mockTables and mockColumns, lines 27-33.
MockTables == {"users"}
MockColumns == [t \in MockTables |-> {"id"}]

\* The rows the simulated preview shows, lines 82-101 (their ids).
MockPreview == <<"1", "2", "3">>

NoSelectedColumns == [t \in {} |-> <<>>]

\* Lines 12-24: the initial values of the state hooks; timeouts and
\* intervals count the timers of lines 80 and 121 that are running.
InitialWizard ==
  [source |-> "", target |-> "", selectedTables |-> <<>>,
   selectedColumns |-> NoSelectedColumns, status |-> "Ready", progress |-> 0,
   recordsIngested |-> 0, previewData |-> <<>>, selectedFile |-> None,
   isLoading |-> FALSE, isClickHouseConnected |-> FALSE,
   timeouts |-> 0, intervals |-> 0, lastAction |-> "none"]

\* The other end of a transfer, lines 37 and 42.
Opposite(value) == IF value = "clickhouse" THEN "flatfile" ELSE "clickhouse"

\* Lines 191-229: the selector and the preview panel are rendered.
SelectorShown == wizard.source # "" /\ wizard.target # ""
PreviewShown == SelectorShown /\ Len(wizard.selectedTables) > 0

Remove(q, x) == SelectSeq(q, LAMBDA y : y # x)

Without(f, k) == [x \in DOMAIN f \ {k} |-> f[x]]

With(f, k, v) == [x \in DOMAIN f \cup {k} |-> IF x = k THEN v ELSE f[x]]

\* A handler called by the user: w is the state it leaves.
UserAction(name, w) ==
  /\ wizard' = [w EXCEPT !.lastAction = name]
  /\ UNCHANGED serverVars

\* A timer callback: w is the state it leaves.
TimerAction(w) ==
  /\ wizard' = w
  /\ UNCHANGED serverVars

\* Lines 35-38.
handleSourceChange(value) ==
  UserAction("handleSourceChange",
             [wizard EXCEPT !.source = value, !.target = Opposite(value)])

\* The target set and the source left as it is.
handleTargetChangeOnly(value) ==
  UserAction("handleTargetChange", [wizard EXCEPT !.target = value])

\* Lines 40-43.
handleTargetChange(value) ==
  UserAction("handleTargetChange",
             [wizard EXCEPT !.target = value, !.source = Opposite(value)])

\* Lines 45-58.
handleTableSelect(table) ==
  /\ SelectorShown
  /\ UserAction("handleTableSelect",
       IF table \in Range(wizard.selectedTables)
       THEN [wizard EXCEPT !.selectedTables = Remove(@, table),
                           !.selectedColumns = Without(@, table)]
       ELSE [wizard EXCEPT !.selectedTables = Append(@, table),
                           !.selectedColumns = With(@, table, <<>>)])

\* Lines 60-72.
handleColumnSelect(table, column) ==
  /\ SelectorShown
  /\ LET cur == IF table \in DOMAIN wizard.selectedColumns
                THEN wizard.selectedColumns[table] ELSE <<>>
     IN UserAction("handleColumnSelect",
          [wizard EXCEPT !.selectedColumns =
             With(@, table, IF column \in Range(cur) THEN Remove(cur, column)
                            ELSE Append(cur, column))])

\* Lines 74-80: the handler up to setTimeout.
handlePreviewData ==
  /\ PreviewShown
  /\ wizard.timeouts < MaxTimers
  /\ UserAction("handlePreviewData",
       [wizard EXCEPT !.status = "Fetching preview data...", !.progress = 50,
                      !.isLoading = TRUE, !.timeouts = @ + 1])

\* Lines 80-105: the callback of the timeout.
PreviewTimeout ==
  /\ wizard.timeouts > 0
  /\ TimerAction([wizard EXCEPT !.previewData = MockPreview,
                                !.status = "Preview ready", !.progress = 100,
                                !.isLoading = FALSE, !.timeouts = @ - 1])

\* Lines 107-112.
handleDataFetched(data) ==
  /\ PreviewShown
  /\ UserAction("handleDataFetched",
       [wizard EXCEPT !.previewData = data, !.status = "Preview ready",
                      !.progress = 100, !.isLoading = FALSE])

\* Lines 114-121: the handler up to setInterval.
handleStartIngestion ==
  /\ PreviewShown
  /\ wizard.intervals < MaxTimers
  /\ UserAction("handleStartIngestion",
       [wizard EXCEPT !.status = "Ingestion in progress...", !.progress = 0,
                      !.recordsIngested = 0, !.isLoading = TRUE,
                      !.intervals = @ + 1])

\* Lines 121-133: one tick of an interval.
IngestionTick ==
  /\ wizard.intervals > 0
  /\ LET newProgress == wizard.progress + 10 IN
     TimerAction(
       IF newProgress >= 100
       THEN [wizard EXCEPT !.intervals = @ - 1,
                           !.status = "Ingestion completed",
                           !.isLoading = FALSE, !.progress = 100]
       ELSE [wizard EXCEPT !.recordsIngested = newProgress * 15,
                           !.progress = newProgress])

\* Lines 136-141.
handleIngestionComplete(recordCount) ==
  /\ PreviewShown
  /\ UserAction("handleIngestionComplete",
       [wizard EXCEPT !.status = "Ingestion completed", !.progress = 100,
                      !.recordsIngested = recordCount, !.isLoading = FALSE])

\* Lines 143-154.
handleReset ==
  /\ PreviewShown
  /\ UserAction("handleReset",
       [wizard EXCEPT !.source = "", !.target = "", !.selectedTables = <<>>,
                      !.selectedColumns = NoSelectedColumns,
                      !.status = "Ready", !.progress = 0,
                      !.recordsIngested = 0, !.previewData = <<>>,
                      !.selectedFile = None,
                      !.isClickHouseConnected = FALSE])

\* Lines 156-161.
handleClickHouseConnected(success) ==
  /\ wizard.source = "clickhouse" \/ wizard.target = "clickhouse"
  /\ UserAction("handleClickHouseConnected",
       IF success
       THEN [wizard EXCEPT !.isClickHouseConnected = TRUE,
                           !.status = "Connected to ClickHouse"]
       ELSE [wizard EXCEPT !.isClickHouseConnected = FALSE])

\* Line 187: onFileChange={setSelectedFile}.
setSelectedFile(file) ==
  /\ wizard.source = "flatfile" \/ wizard.target = "flatfile"
  /\ UserAction("setSelectedFile", [wizard EXCEPT !.selectedFile = file])

Directions == {"clickhouse", "flatfile"}

WizardNext ==
  \/ \E v \in Directions : handleSourceChange(v)
  \/ \E v \in Directions : handleTargetChange(v)
  \/ \E t \in MockTables : handleTableSelect(t)
  \/ \E t \in MockTables : \E c \in MockColumns[t] : handleColumnSelect(t, c)
  \/ handlePreviewData
  \/ PreviewTimeout
  \/ handleDataFetched(<<"7">>)
  \/ handleStartIngestion
  \/ IngestionTick
  \/ handleIngestionComplete(3)
  \/ handleReset
  \/ \E ok \in BOOLEAN : handleClickHouseConnected(ok)
  \/ \E f \in {None, Some(<<"d.csv">>)} : setSelectedFile(f)

(***************************************************************************)
(* The server serving one request at a time.                               *)
(***************************************************************************)
Init ==
  /\ client = NoClient
  /\ connectionConfig = NoConfig
  /\ store = InitialStore
  /\ disk = [dirs |-> {<<"/">>, AppDir}, files |-> [p \in {} |-> <<>>]]
  /\ clock = 0
  /\ req = [s \in Slots |-> IdleReq]
  /\ served = 0
  /\ established = NoneEstablished
  /\ wizard = InitialWizard

\* The slot of the request being served.
Serving == CHOOSE s \in Slots : \A t \in Slots : s <= t

Next ==
  \/ \E host \in HostInputs : Quiescent /\ Connect(Serving, host) /\ UNCHANGED wizard
  \/ Quiescent /\ Tables(Serving) /\ UNCHANGED wizard
  \/ \E t \in TableInputs : Quiescent /\ Columns(Serving, t) /\ UNCHANGED wizard
  \/ \E t \in TableInputs, cs \in PreviewColumnsInputs :
       Quiescent /\ Preview(Serving, t, cs) /\ UNCHANGED wizard
  \/ \E body \in IngestBodies : Quiescent /\ Ingest(Serving, body) /\ UNCHANGED wizard
  \/ \E file \in UploadInputs, dt \in 0..1 :
       Quiescent /\ Upload(Serving, file, dt) /\ UNCHANGED wizard
  \/ \E f \in DownloadInputs : Quiescent /\ Download(Serving, f) /\ UNCHANGED wizard
  \/ \E s \in Slots, ok \in BOOLEAN : ConnectReturn(s, ok) /\ UNCHANGED wizard
  \/ \E s \in Slots, ok \in BOOLEAN : EnsureReturn(s, ok) /\ UNCHANGED wizard
  \/ \E s \in Slots, ok \in BOOLEAN : QueryReturn(s, ok) /\ UNCHANGED wizard
  \/ \E s \in Slots, ok \in BOOLEAN : ExportQueryReturn(s, ok) /\ UNCHANGED wizard
  \/ \E s \in Slots : ExportWriteReturn(s) /\ UNCHANGED wizard
  \/ \E s \in Slots : ImportReadReturn(s) /\ UNCHANGED wizard
  \/ \E s \in Slots, ok \in BOOLEAN : ImportCreateReturn(s, ok) /\ UNCHANGED wizard
  \/ \E s \in Slots, ok \in BOOLEAN : ImportInsertReturn(s, ok) /\ UNCHANGED wizard

Spec == Init /\ [][Next]_vars

(***************************************************************************)
(* Properties of the connection manager and of the dispatch of /ingest.    *)
(***************************************************************************)
EnsuringOps == {"tables", "columns", "preview", "ingest"}

ValidPair(b) ==
  \/ b.source = "clickhouse" /\ b.target = "flatfile"
  \/ b.source = "flatfile" /\ b.target = "clickhouse"

Pings(r) == SelectSeq(r.io, LAMBDA e : e.ev = "ping")

InvalidRequest(r) ==
  /\ r.resp.status = 400
  /\ r.resp.error = "Invalid source or target combination"

\* C1: an /ingest request whose (source, target) pair is neither
\* (clickhouse, flatfile) nor (flatfile, clickhouse) starts no I/O at all
\* (no liveness query, no statement, no file operation) and is answered
\* with the invalid-request error, whatever the client and config are.
C1_InvalidPairRejectedWithoutIO ==
  \A s \in Slots :
    (req[s].op = "ingest" /\ ~ValidPair(req[s].body)) =>
      /\ req[s].io = <<>>
      /\ req[s].pc = "done"
      /\ InvalidRequest(req[s])

\* C2: a connect call whose liveness query fails leaves the client absent
\* and the stored config exactly as it was before the call.
C2_FailedConnectKeepsConfig ==
  \A s \in Slots :
    (req[s].op = "connect" /\ req[s].pc = "done" /\ req[s].resp.status = 500) =>
      /\ client = NoClient
      /\ connectionConfig = req[s].loc.before

\* C3: once a connect call has succeeded, and until the next connect call
\* or failed liveness query, every call of ensureConnection returns true,
\* no request issues a liveness query, and the client and the config stay
\* the ones that connect call left.
C3_EnsureAfterConnectIsFree ==
  established.some =>
    /\ client = established.client
    /\ connectionConfig = established.config
    /\ \A s \in Slots :
         req[s].op \in EnsuringOps =>
           /\ \A i \in DOMAIN req[s].ens : req[s].ens[i].result = "true"
           /\ Pings(req[s]) = <<>>

\* A request that called ensureConnection twice after a successful connect
\* has been answered.
C3_Witness ==
  /\ established.some
  /\ \E s \in Slots :
       /\ req[s].op = "ingest"
       /\ req[s].pc = "done"
       /\ Len(req[s].ens) = 2
       /\ req[s].resp.status = 200

IsExport(r) ==
  r.op = "ingest" /\ r.body.source = "clickhouse" /\ r.body.target = "flatfile"

IsImport(r) ==
  r.op = "ingest" /\ r.body.source = "flatfile" /\ r.body.target = "clickhouse"

Of(r, kinds) == SelectSeq(r.io, LAMBDA e : e.ev \in kinds)

Creates(r) ==
  SelectSeq(r.io, LAMBDA e : e.ev = "exec" /\ e.a[1] = "CREATE TABLE IF NOT EXISTS ")

Inserts(r) ==
  SelectSeq(r.io, LAMBDA e : e.ev = "exec" /\ e.a[1] = "INSERT INTO ")

\* p names an entry directly inside the exports directory.
InsideExports(p) ==
  LET n == Len(ExportsDir) IN
  /\ Len(p) > n + 1
  /\ SubSeq(p, 1, n + 1) = ExportsDir \o <<"/">>
  /\ LET name == SubSeq(p, n + 2, Len(p)) IN
     /\ "/" \notin Range(name)
     /\ name \notin { <<".">>, <<"..">> }

\* C5: whatever name the caller supplies, the path an export writes and the
\* path a download reads is an entry directly inside the exports directory.
C5_PathsStayInsideExports ==
  \A s \in Slots :
    \A i \in DOMAIN req[s].io :
      LET e == req[s].io[i] IN
      (\/ IsExport(req[s]) /\ e.ev = "write"
       \/ req[s].op = "download" /\ e.ev = "read") => InsideExports(e.a)

Suffix(q, n) == SubSeq(q, Len(q) - n + 1, Len(q))

\* C6: when the insert of record k of an import fails, the request is
\* answered with the ingestion error and no result, no further insert is
\* issued (k inserts in all), and records 1..k-1 are the last k-1 rows of
\* the target table.
C6_ImportAbortsAtFailedInsert ==
  \A s \in Slots :
    LET r == req[s]
        ins == Inserts(r)
    IN (IsImport(r) /\ \E j \in DOMAIN ins : ins[j].res = "error") =>
         LET k == Len(ins)
             rows == store[r.body.targetTable.v].rows
         IN /\ ins[k].res = "error"
            /\ \A j \in 1..(k - 1) : ins[j].res = "ok"
            /\ r.pc = "done"
            /\ r.resp.status = 500
            /\ r.resp.error = IngestFailed
            /\ r.resp.records = 0
            /\ k <= Len(disk.files[r.body.filePath.v]) - 1
            /\ Len(rows) >= k - 1
            /\ Suffix(rows, k - 1) = SubSeq(r.loc.rows, 1, k - 1)

\* The second of three records failed: one row applied, the third never
\* attempted.
C6_Witness ==
  \E s \in Slots :
    LET r == req[s] IN
    /\ IsImport(r)
    /\ r.pc = "done"
    /\ Len(Inserts(r)) = 2
    /\ Inserts(r)[2].res = "error"
    /\ Len(r.loc.rows) = 3
    /\ Len(store[<<"imp">>].rows) = 1

RECURSIVE TotalRows(_)
TotalRows(tables) ==
  IF tables = <<>> THEN 0
  ELSE (IF Head(tables) \in DOMAIN store THEN Len(store[Head(tables)].rows) ELSE 0)
       + TotalRows(Tail(tables))

\* The export has the connection and each of its tables has been queried
\* with success.
AllQueriesOk(r) ==
  /\ Len(r.ens) = 2
  /\ \A j \in DOMAIN r.ens : r.ens[j].result = "true"
  /\ Len(Of(r, {"query"})) = Len(r.body.tables)
  /\ \A j \in DOMAIN Of(r, {"query"}) : Of(r, {"query"})[j].res = "ok"

\* What an export leaves in the exports directory.
C7_ExportState ==
  \A s \in Slots :
    LET r == req[s] IN
    IsExport(r) =>
      /\ Of(r, {"mkdir", "write"}) # <<>> =>
           AllQueriesOk(r) /\ TotalRows(r.body.tables) > 0
      /\ (\E j \in DOMAIN r.io : r.io[j].ev = "query" /\ r.io[j].res = "error") =>
           /\ r.pc = "done"
           /\ r.resp.status = 500
           /\ r.resp.error = IngestFailed
      /\ (r.pc = "done" /\ AllQueriesOk(r) /\ TotalRows(r.body.tables) = 0) =>
           /\ r.resp.status = 200
           /\ r.resp.records = 0
           /\ r.resp.filePath = None

\* C7: an export changes the disk only in a step after which all its
\* queries have succeeded and the rows are not empty: a failed query is
\* answered with the error and nothing is created or written, and zero rows
\* are answered with recordCount 0, no file reference, and nothing created
\* or written.
C7_ExportWritesOnlyAtEnd ==
  /\ []C7_ExportState
  /\ [][\A s \in Slots :
          (IsExport(req'[s]) /\ disk' # disk) =>
            /\ AllQueriesOk(req'[s])
            /\ TotalRows(req'[s].body.tables) > 0]_vars

\* An export of two tables wrote its file.
C7_Witness ==
  \E s \in Slots :
    LET r == req[s] IN
    /\ IsExport(r)
    /\ r.pc = "done"
    /\ r.resp.status = 200
    /\ Len(r.body.tables) = 2
    /\ r.loc.filePath \in DOMAIN disk.files

IndexOf(q, x) == CHOOSE i \in 1..Len(q) : q[i] = x /\ \A j \in 1..(i - 1) : q[j] # x

\* The column definitions of a create-table statement.
ColumnDefs(stmt) ==
  Split(SubSeq(stmt, IndexOf(stmt, " (") + 1, Len(stmt) - 1), ", ")

\* The column names of an insert statement.
InsertColumns(stmt) ==
  Split(SubSeq(stmt, IndexOf(stmt, " (") + 1, IndexOf(stmt, ") VALUES (") - 1), ", ")

\* C8: an import issues its statements one at a time, each after the
\* previous one succeeded, the create-table first; a successful import of
\* the n >= 1 records of a file has issued one create-table whose columns
\* are the keys of the first record, each typed String, then n inserts,
\* record by record in file order, and answers recordCount n.
C8_ImportStatements ==
  \A s \in Slots :
    LET r == req[s]
        ex == Of(r, {"exec"})
    IN IsImport(r) =>
         /\ \A j \in 1..(Len(ex) - 1) : ex[j].res = "ok"
         /\ ex # <<>> => Creates(r) = <<ex[1]>>
         /\ Len(Creates(r)) <= 1
         /\ (r.pc = "done" /\ r.resp.status = 200
               /\ Len(disk.files[r.body.filePath.v]) > 1) =>
              LET n == Len(disk.files[r.body.filePath.v]) - 1
                  keys == ObjectKeys(r.loc.rows[1])
                  rows == store[r.body.targetTable.v].rows
              IN /\ Len(ex) = n + 1
                 /\ Len(Inserts(r)) = n
                 /\ ColumnDefs(ex[1].a) =
                      [j \in 1..Len(keys) |-> keys[j] \o <<" String">>]
                 /\ \A j \in 1..n :
                      InsertColumns(Inserts(r)[j].a) = ObjectKeys(r.loc.rows[j])
                 /\ Len(r.loc.rows) = n
                 /\ Len(rows) >= n
                 /\ Suffix(rows, n) = r.loc.rows
                 /\ r.resp.records = n

\* The three records of the uploaded file were imported with the comma as
\* delimiter into a table of two String columns.
C8_Witness ==
  \E s \in Slots :
    LET r == req[s] IN
    /\ IsImport(r)
    /\ r.pc = "done"
    /\ r.resp.status = 200
    /\ r.resp.records = 3
    /\ Creates(r)[1].a =
         <<"CREATE TABLE IF NOT EXISTS ", "imp", " (", "name", " String", ", ",
           "age", " String", ") ENGINE = MergeTree() ORDER BY tuple()">>
    /\ Inserts(r)[3].a =
         <<"INSERT INTO ", "imp", " (", "name", ", ", "age", ") VALUES (",
           "'", "O", "''", "Hara", "'", ", ", "'", "41", "'", ")">>
    /\ Len(store[<<"imp">>].rows) = 3

Written(r) == disk.files[r.loc.filePath]

ExportDone(r) ==
  /\ IsExport(r)
  /\ r.pc = "done"
  /\ r.resp.status = 200
  /\ r.resp.filePath.some

\* C9: the first line of an exported file is the keys of the first
\* accumulated row, in that row's order; the line of every row holds, for
\* each of those keys in turn, the row's value or nothing when the row
\* lacks the key, and no other field (the fields split at the comma the
\* writer separates them with).
C9_HeaderFromFirstRow ==
  \A s \in Slots :
    LET r == req[s] IN
    ExportDone(r) =>
      LET keys == ObjectKeys(r.loc.results[1])
          lines == Written(r)
      IN /\ Split(lines[1], ",") = keys
         /\ Len(lines) = Len(r.loc.results) + 1
         /\ \A i \in 1..Len(r.loc.results) :
              Split(lines[i + 1], ",") =
                [j \in 1..Len(keys) |->
                   IF HasKey(r.loc.results[i], keys[j])
                   THEN Get(r.loc.results[i], keys[j]) ELSE <<>>]

\* Rows {c:5, a:3} and {a:1, b:2}: header c,a; the second row's b is
\* omitted and its c is empty.
C9_Witness ==
  \E s \in Slots :
    LET r == req[s] IN
    /\ ExportDone(r)
    /\ r.loc.results =
         << << << <<"c">>, <<"5">> >>, << <<"a">>, <<"3">> >> >>,
            << << <<"a">>, <<"1">> >>, << <<"b">>, <<"2">> >> >> >>
    /\ Written(r) = << <<"c", ",", "a">>, <<"5", ",", "3">>, <<",", "1">> >>

\* C10: an export separates the fields of the header line and of every row
\* with the delimiter of the request.
C10_ExportUsesRequestDelimiter ==
  \A s \in Slots :
    LET r == req[s] IN
    ExportDone(r) =>
      \A i \in DOMAIN Written(r) :
        Len(Split(Written(r)[i], Delimiter(r))) = Len(r.loc.header)

\* The rows of the first j tables of an export, as the store holds them.
RECURSIVE RowsOfTables(_, _)
RowsOfTables(r, j) ==
  IF j = 0 THEN <<>>
  ELSE RowsOfTables(r, j - 1)
         \o SelectRows(r.body.tables[j], ExportColumns(r, r.body.tables[j]))

\* C11: an export queries its tables one at a time in the order of the
\* request (a query is issued only after the one before has succeeded); a
\* successful export has written the rows of all tables concatenated in
\* that order, and answers with the sum of the tables' row counts, which is
\* the number of data lines written, and with the file name (the basename
\* of the target name, not the path).
C11_ExportSequentialAndCounted ==
  \A s \in Slots :
    LET r == req[s]
        qs == Of(r, {"query"})
    IN IsExport(r) =>
         /\ Len(qs) <= Len(r.body.tables)
         /\ \A j \in DOMAIN qs :
              /\ qs[j].a = ExportStatement(r, r.body.tables[j])
              /\ j < Len(qs) => qs[j].res = "ok"
         /\ ExportDone(r) =>
              LET all == RowsOfTables(r, Len(r.body.tables)) IN
              /\ Len(qs) = Len(r.body.tables)
              /\ Written(r) = CsvLines(ObjectKeys(all[1]), all, FieldDelimiter)
              /\ r.resp.records = TotalRows(r.body.tables)
              /\ r.resp.records = Len(Written(r)) - 1
              /\ r.resp.filePath.v =
                   basename(IF r.body.targetFile.some THEN r.body.targetFile.v
                            ELSE <<"export.csv">>)
              /\ "/" \notin Range(r.resp.filePath.v)
              /\ r.loc.filePath = ExportsDir \o <<"/">> \o r.resp.filePath.v

\* Tables t1 and t2 exported to ../../etc/passwd: two records, t1's row
\* first, the file named passwd.
C11_Witness ==
  \E s \in Slots :
    LET r == req[s] IN
    /\ ExportDone(r)
    /\ r.body.tables = << <<"t1">>, <<"t2">> >>
    /\ r.resp.records = 2
    /\ r.resp.filePath.v = <<"passwd">>
    /\ Written(r) = << <<"a", ",", "b">>, <<"1", ",", "2">>, <<"3", ",", "4">> >>

(***************************************************************************)
(* Properties of the error handling.                                       *)
(***************************************************************************)
\* The first ensureConnection call of r found the client absent and could
\* not recover one: no config was stored, or the liveness query failed.
Unrecoverable(r) ==
  /\ r.ens # <<>>
  /\ r.ens[1].absent
  /\ \/ r.ens[1].config = NoConfig
     \/ Pings(r) # <<>> /\ Pings(r)[1].res = "error"

IsDataOp(r) ==
  \/ r.op \in {"tables", "columns", "preview"}
  \/ IsExport(r)
  \/ IsImport(r)

\* C12: a tables, columns, preview, export or import request whose
\* ensureConnection call finds the client absent and cannot recover one is
\* answered 400 with the not-connected error, issues no statement and
\* touches no file (its only I/O is the failed liveness query, if any).
C12_NotConnectedWithoutStatements ==
  \A s \in Slots :
    LET r == req[s] IN
    (IsDataOp(r) /\ Unrecoverable(r)) =>
      /\ r.pc = "done"
      /\ r.resp.status = 400
      /\ r.resp.error = NotConnected
      /\ Of(r, {"query", "exec", "read", "write", "mkdir", "exists"}) = <<>>
      /\ Len(r.io) = Len(Pings(r))
      /\ Len(r.ens) = 1
      /\ r.ens[1].result = "false"
      /\ client = NoClient

\* An import of an uploaded file, after a connect that failed: the
\* reconnect fails and the import is refused.
C12_Witness ==
  \E s \in Slots :
    LET r == req[s] IN
    /\ IsImport(r)
    /\ r.body.filePath.some
    /\ r.body.filePath.v \in DOMAIN disk.files
    /\ r.body.targetTable.some
    /\ Unrecoverable(r)
    /\ r.ens[1].config # NoConfig
    /\ r.resp.status = 400

\* C13: no exception escapes a handler: every connect request, with or
\* without a host, ends with the success response (200) or the structured
\* failure response (500), and every other request that has ended has been
\* answered.
C13_NoExceptionEscapes ==
  \A s \in Slots :
    LET r == req[s] IN
    /\ r.pc \notin {"escaped", "uncaught"}
    /\ (r.op = "connect" /\ Finished(r)) => r.resp.status \in {200, 500}
    /\ (r.op # "none" /\ Finished(r)) => r.resp.status # 0

\* C14: an import whose file cannot be opened or read is rejected with
\* that error: the ingest request is answered with the ingestion failure
\* (500), and the stream error is not left unhandled.
C14_ReadFailureRejectsImport ==
  \A s \in Slots :
    LET r == req[s]
        reads == Of(r, {"read"})
    IN (IsImport(r) /\ reads # <<>> /\ reads[1].res = "error") =>
         /\ r.pc = "done"
         /\ r.resp.status = 500
         /\ r.resp.error = IngestFailed

\* C15: when a statement of a data operation (SHOW TABLES, DESCRIBE,
\* SELECT, CREATE TABLE, INSERT) has failed, the request ends with the
\* client absent, so that the next ensureConnection call reconnects.
C15_FailedStatementClearsClient ==
  \A s \in Slots :
    LET r == req[s]
        stmts == Of(r, {"query", "exec"})
    IN (r.pc = "done" /\ \E j \in DOMAIN stmts : stmts[j].res = "error") =>
         client = NoClient

(***************************************************************************)
(* The connection manager under interleaved requests: a handler runs       *)
(* without interruption from one await to the next, and a request may      *)
(* arrive while others are suspended at an await.                          *)
(***************************************************************************)
\* The slot a new request takes: the lowest one that holds no request in
\* flight.
Free(s) ==
  /\ Finished(req[s])
  /\ \A t \in Slots : t < s => ~Finished(req[t])

NextInterleaved ==
  \/ \E s \in Slots, host \in HostInputs :
       Free(s) /\ Connect(s, host) /\ UNCHANGED wizard
  \/ \E s \in Slots : Free(s) /\ Tables(s) /\ UNCHANGED wizard
  \/ \E s \in Slots, t \in TableInputs :
       Free(s) /\ Columns(s, t) /\ UNCHANGED wizard
  \/ \E s \in Slots, t \in TableInputs, cs \in PreviewColumnsInputs :
       Free(s) /\ Preview(s, t, cs) /\ UNCHANGED wizard
  \/ \E s \in Slots, ok \in BOOLEAN : ConnectReturn(s, ok) /\ UNCHANGED wizard
  \/ \E s \in Slots, ok \in BOOLEAN : EnsureReturn(s, ok) /\ UNCHANGED wizard
  \/ \E s \in Slots, ok \in BOOLEAN : QueryReturn(s, ok) /\ UNCHANGED wizard

Interleaved == Init /\ [][NextInterleaved]_vars

\* C16: at the moment a connect call reports success, the client is
\* present and is the one that call created and whose liveness query it
\* awaited, and the stored config is that call's normalized config.
C16_SuccessfulConnectOwnsClient ==
  [][\A s \in Slots :
       (req[s].pc = "connect_wait" /\ req'[s].pc = "done"
          /\ req'[s].resp.status = 200) =>
         /\ client' # NoClient
         /\ client'.owner = s
         /\ client'.cfg = MakeConfig(req[s].body.host.v, Port)
         /\ connectionConfig' = MakeConfig(req[s].body.host.v, Port)]_vars

C18_UploadPathIsFresh ==
  [][\A s \in Slots :
       (served' = served + 1 /\ req'[s].op = "upload"
          /\ req'[s].resp.status = 200) =>
         req'[s].resp.filePath.v \notin DOMAIN disk.files]_vars

(***************************************************************************)
(* The wizard page alone.                                                  *)
(***************************************************************************)
Wizard == Init /\ [][WizardNext]_vars

\* C19: whatever handleSourceChange, handleTargetChange (with clickhouse
\* or flatfile) and handleReset have been called, the pair (source, target)
\* is ("", ""), (clickhouse, flatfile) or (flatfile, clickhouse).
C19_DirectionIsValid ==
  <<wizard.source, wizard.target>> \in
    { <<"", "">>, <<"clickhouse", "flatfile">>, <<"flatfile", "clickhouse">> }

\* The target was set to clickhouse after other choices and the source
\* followed.
C19_Witness ==
  /\ wizard.lastAction = "handleTargetChange"
  /\ wizard.target = "clickhouse"
  /\ wizard.source = "flatfile"
  /\ Len(wizard.selectedTables) > 0

\* The state hooks of the page, lines 12-24.
Hooks(w) ==
  [source |-> w.source, target |-> w.target,
   selectedTables |-> w.selectedTables, selectedColumns |-> w.selectedColumns,
   status |-> w.status, progress |-> w.progress,
   recordsIngested |-> w.recordsIngested, previewData |-> w.previewData,
   selectedFile |-> w.selectedFile, isLoading |-> w.isLoading,
   isClickHouseConnected |-> w.isClickHouseConnected]

\* C20: after handleReset, and until the next handler is called by the
\* user, every state hook of the page has its initial value, whatever
\* timers are still running.
C20_ResetRestoresInitialState ==
  wizard.lastAction = "handleReset" => Hooks(wizard) = Hooks(InitialWizard)

====
